---- MODULE Spec2Model ----
(***************************************************************************)
(* A model of scripts/pmo_report_generator.py: the PMOReportGenerator      *)
(* object, one generate_report call as a sequence of steps (fetch, render, *)
(* file write, notify), the reports directory, and the environment the     *)
(* call reads (the wall clock, the Jira response, the outcome of the file  *)
(* write).                                                                 *)
(*                                                                         *)
(* Text is a sequence of one-character strings, so that substring tests,   *)
(* formatting and concatenation are computed and not assumed.  A Python    *)
(* value is a record [t |-> type tag, v |-> payload].                      *)
(***************************************************************************)
EXTENDS Integers, Sequences, FiniteSets, TLC

VARIABLES
    now,          \* the wall clock, as read by datetime.now()
    timestamp,    \* self.timestamp
    pc,           \* position of the generator: idle, fetch, render, write,
                  \* subject, send, done, raised
    report_time,  \* generate_report's parameter (the label)
    issues,       \* generate_report's local `issues`
    html_report,  \* generate_report's local `html_report`
    filename,     \* generate_report's local `filename`
    subject,      \* generate_report's local `subject`
    idx,          \* position of the `for email in EMAILS` loop
    files,        \* the files of the reports directory: path -> content
    attempts,     \* the messages send_email_outlook has built in this call
    sent,         \* the messages handed to a mail transport
    response,     \* history: what the Issue Source answered in this call
    steps,        \* history: the steps this call has executed, in order
    call_start,   \* history: the clock when this call started
    writes,       \* history: every file write of every call
    runs          \* history: the number of generate_report calls so far

vars == << now, timestamp, pc, report_time, issues, html_report, filename,
           subject, idx, files, attempts, sent, response, steps, call_start,
           writes, runs >>

(***************************************************************************)
(* Bounds of the model.                                                    *)
(***************************************************************************)
MaxRuns == 2
MaxIssues == 3

(***************************************************************************)
(* Python values.                                                          *)
(***************************************************************************)
Str(s) == [t |-> "str", v |-> s]
None == [t |-> "None", v |-> << >>]
Dict(d) == [t |-> "dict", v |-> d]
List(l) == [t |-> "list", v |-> l]
Raise(e) == [t |-> "raise", v |-> e]
EmptyDict == Dict(<< >>)

\* dict.get(key, default); on a value that is no dict the attribute lookup
\* raises AttributeError.  An exception raised while evaluating the receiver
\* propagates.
Get(x, key, default) ==
    IF x.t = "raise" THEN x
    ELSE IF x.t # "dict" THEN Raise("AttributeError")
    ELSE IF key \in DOMAIN x.v THEN x.v[key]
    ELSE default

(***************************************************************************)
(* Text.                                                                   *)
(***************************************************************************)
DigitChars == << "0", "1", "2", "3", "4", "5", "6", "7", "8", "9" >>
DigitChar(k) == DigitChars[k + 1]

RECURSIVE Pow10(_)
Pow10(w) == IF w = 0 THEN 1 ELSE 10 * Pow10(w - 1)

\* A zero-padded decimal field of strftime (%Y, %m, %d, %H, %M, %S).
Pad(n, w) == [i \in 1..w |-> DigitChar((n \div Pow10(w - i)) % 10)]

\* str(n) of a natural number, as an f-string formats it.
RECURSIVE IntStr(_)
IntStr(n) ==
    IF n < 10 THEN << DigitChar(n) >>
    ELSE IntStr(n \div 10) \o << DigitChar(n % 10) >>

\* Python's `sub in s` on strings.
Contains(s, sub) ==
    \E i \in 1..(Len(s) - Len(sub) + 1) : SubSeq(s, i, i + Len(sub) - 1) = sub

Highest == << "H", "i", "g", "h", "e", "s", "t" >>
InReview == << "I", "n", " ", "R", "e", "v", "i", "e", "w" >>
InProgress == << "I", "n", " ", "P", "r", "o", "g", "r", "e", "s", "s" >>
Done == << "D", "o", "n", "e" >>


KeyOrder == << "id", "name" >>
KeyText(k) == IF k = "id" THEN << "i", "d" >> ELSE << "n", "a", "m", "e" >>

\* str(x).  A string is itself, None is 'None', and a dict is the repr of
\* its items in insertion order, each string value in single quotes.
RECURSIVE PyRepr(_)
RECURSIVE ItemsRepr(_, _)
ItemsRepr(d, ks) ==
    IF ks = << >> THEN << >>
    ELSE LET k == Head(ks)
             rest == ItemsRepr(d, Tail(ks))
             item == << "'" >> \o KeyText(k) \o << "'", ":", " " >> \o PyRepr(d[k])
         IN  IF rest = << >> THEN item ELSE item \o << ",", " " >> \o rest
PyRepr(x) ==
    CASE x.t = "str" -> << "'" >> \o x.v \o << "'" >>
      [] x.t = "None" -> << "N", "o", "n", "e" >>
      [] x.t = "dict" ->
            << "{" >> \o ItemsRepr(x.v, SelectSeq(KeyOrder, LAMBDA k : k \in DOMAIN x.v))
                   \o << "}" >>
PyStr(x) == IF x.t = "str" THEN x.v ELSE PyRepr(x)

(***************************************************************************)
(* The wall clock and strftime.                                            *)
(***************************************************************************)
Instant(Y, m, d, H, M, S) == [Y |-> Y, m |-> m, d |-> d, H |-> H, M |-> M, S |-> S]

\* The instants the clock is observed at: the last second of a day, an
\* afternoon, and a day whose month and day digits are those of the first
\* day the other way round.
Instants ==
    { Instant(2024, 1, 11, 23, 59, 59), Instant(2024, 3, 5, 15, 0, 0),
      Instant(2024, 11, 1, 9, 0, 0) }

\* The order of datetime values: by date, then by time of day.
DayKey(t) == (t.Y * 13 + t.m) * 32 + t.d
SecondOfDay(t) == (t.H * 60 + t.M) * 60 + t.S
Before(a, b) ==
    \/ DayKey(a) < DayKey(b)
    \/ DayKey(a) = DayKey(b) /\ SecondOfDay(a) < SecondOfDay(b)
DateOf(t) == [Y |-> t.Y, m |-> t.m, d |-> t.d]

\* strftime('%Y-%m-%d %H:%M:%S')
FormatTimestamp(t) ==
    Pad(t.Y, 4) \o << "-" >> \o Pad(t.m, 2) \o << "-" >> \o Pad(t.d, 2) \o << " " >>
        \o Pad(t.H, 2) \o << ":" >> \o Pad(t.M, 2) \o << ":" >> \o Pad(t.S, 2)
\* Mutant: month and day without their leading zero ('%Y%-m%-d').
FormatYmdNoPad(t) == Pad(t.Y, 4) \o IntStr(t.m) \o IntStr(t.d)
\* strftime('%Y%m%d')
FormatYmd(t) == Pad(t.Y, 4) \o Pad(t.m, 2) \o Pad(t.d, 2)
\* strftime('%d/%m/%Y')
FormatDmy(t) == Pad(t.d, 2) \o << "/" >> \o Pad(t.m, 2) \o << "/" >> \o Pad(t.Y, 4)

(***************************************************************************)
(* Configuration.                                                          *)
(***************************************************************************)
EMAILS == << "vinicius.souza@ybymartech.com", "viniciusouza@gmail.com" >>
reports_dir == << "r", "e", "p", "o", "r", "t", "s" >>

\* The labels generate_report is called with (--time).
Labels == { << "0", "9", "h" >>, << "1", "5", "h" >> }

(***************************************************************************)
(* fetch_jira_issues.                                                      *)
(***************************************************************************)
\* The body of the try block: requests.get raises on a transport error or a
\* timeout; on status 200 the parsed body's 'issues' entry is returned
\* (response.json() raises on a body that is no JSON, .get raises on a body
\* that is no object); any other status gives [].
FetchTry(resp) ==
    IF resp.kind # "http" THEN Raise(resp.kind)
    ELSE IF resp.status = 200 THEN Get(resp.json, "issues", List(<< >>))
    ELSE List(<< >>)

\* Mutant: no except clause, the exception leaves fetch_jira_issues.
FetchWithoutExcept(resp) == FetchTry(resp)
\* Mutant: the except clause returns None.
FetchExceptReturnsNone(resp) ==
    LET r == FetchTry(resp) IN IF r.t = "raise" THEN None ELSE r
\* try: ... except Exception: return []
fetch_jira_issues(resp) ==
    LET r == FetchTry(resp) IN IF r.t = "raise" THEN List(<< >>) ELSE r

(***************************************************************************)
(* generate_dark_report.                                                   *)
(***************************************************************************)
PriorityOf(i) == Get(Get(i, "fields", EmptyDict), "priority", Str(<< >>))
StatusNameOf(i) == Get(Get(Get(i, "fields", EmptyDict), "status", EmptyDict), "name", None)

\* Mutant: the priority is compared for equality with 'Highest'.
IsCriticalExact(i) == PyStr(PriorityOf(i)) = Highest
\* Mutant: the status name is tested for the substring 'Done'.
IsCompletedSubstring(i) ==
    LET n == StatusNameOf(i) IN n.t = "str" /\ Contains(n.v, Done)
IsCritical(i) == Contains(PyStr(PriorityOf(i)), Highest)
IsInRisk(i) == LET n == StatusNameOf(i) IN n.t = "str" /\ n.v \in { InReview, InProgress }
IsCompleted(i) == LET n == StatusNameOf(i) IN n.t = "str" /\ n.v = Done

\* sum(1 for i in issues if cond(i)), given cond(i) for each i in turn.
CountTrue(conds) == Cardinality({ k \in DOMAIN conds : conds[k] })

\* The f-string template: only the interpolated parts vary.
Html(ts, total_issues, critical_count, in_risk, completed) ==
    [t |-> "html",
     v |-> [timestamp |-> ts,
            kpi_total |-> IntStr(total_issues),
            kpi_critical |-> IntStr(critical_count),
            kpi_in_risk |-> IntStr(in_risk),
            kpi_completed |-> IntStr(completed),
            open_tasks |-> IntStr(total_issues),
            hotzone |-> IntStr(critical_count)]]

\* The four counts, then the template.  A record on which a .get chain
\* raises makes the whole call raise.
generate_dark_report(self_timestamp, l) ==
    IF \E k \in DOMAIN l : PriorityOf(l[k]).t = "raise" \/ StatusNameOf(l[k]).t = "raise"
    THEN Raise("AttributeError")
    ELSE Html(self_timestamp, Len(l),
              CountTrue([k \in DOMAIN l |-> IsCritical(l[k])]),
              CountTrue([k \in DOMAIN l |-> IsInRisk(l[k])]),
              CountTrue([k \in DOMAIN l |-> IsCompleted(l[k])]))

(***************************************************************************)
(* The report file and the e-mail.                                         *)
(***************************************************************************)
\* f"{self.reports_dir}/pmo_report_{report_time}_{now:%Y%m%d}.html"
ReportPath(label, t) ==
    reports_dir \o << "/", "p", "m", "o", "_", "r", "e", "p", "o", "r", "t", "_" >> \o label \o << "_" >>
        \o FormatYmd(t) \o << ".", "h", "t", "m", "l" >>

\* f"(chart emoji) PMO Report {report_time} - {now:%d/%m/%Y}"; the emoji is
\* one character of the text.
ReportSubject(label, t) ==
    << "chart-emoji" >> \o << " ", "P", "M", "O", " ", "R", "e", "p", "o", "r", "t", " " >> \o label
        \o << " ", "-", " " >> \o FormatDmy(t)

\* open(filename, 'w') and f.write(...): the directory after the write.
PutFile(fs, path, content) ==
    [p \in DOMAIN fs \cup { path } |-> IF p = path THEN content ELSE fs[p]]

\* A file that open() truncated and whose write did not complete.
Partial == [t |-> "partial", v |-> << >>]

\* Mutant: the message is handed to a transport.
SendEmailOutlookSends(recipient, subj, html_body, built, outbox) ==
    [attempts |-> Append(built, [to |-> recipient, subject |-> subj, body |-> html_body]),
     sent |-> Append(outbox, [to |-> recipient, subject |-> subj, body |-> html_body])]

\* send_email_outlook: the message is built and the intent is logged; nothing
\* is handed to a transport.
send_email_outlook(recipient, subj, html_body, built, outbox) ==
    [attempts |-> Append(built, [to |-> recipient, subject |-> subj, body |-> html_body]),
     sent |-> outbox]


(***************************************************************************)
(* Inputs: issue records and Issue Source answers.                         *)
(***************************************************************************)
Low == << "L", "o", "w" >>
WithFields(f) == Dict([fields |-> f])
StatusNamed(n) == Dict([name |-> Str(n)])

\* The three records of the documented scenario.
RecHighestInProgress ==
    WithFields(Dict([priority |-> Str(Highest), status |-> StatusNamed(InProgress)]))
RecLowDone == WithFields(Dict([priority |-> Str(Low), status |-> StatusNamed(Done)]))
RecHighestDone == WithFields(Dict([priority |-> Str(Highest), status |-> StatusNamed(Done)]))
\* The shape Jira answers with: priority is an object with a name.
RecJiraHighestInReview ==
    WithFields(Dict([priority |-> Dict([id |-> Str(<< "1" >>), name |-> Str(Highest)]),
                     status |-> StatusNamed(InReview)]))
\* Labels that differ from the matched ones in case or by extra characters.
RecLowerCase ==
    WithFields(Dict([priority |-> Str(<< "h", "i", "g", "h", "e", "s", "t" >>),
                     status |-> StatusNamed(<< "i", "n", " ", "p", "r", "o", "g", "r", "e", "s", "s" >>)]))
RecNotHighestDoneDot ==
    WithFields(Dict([priority |-> Str(<< "N", "o", "t", " ", "H", "i", "g", "h", "e", "s", "t" >>),
                     status |-> StatusNamed(<< "D", "o", "n", "e", "." >>)]))
\* Records that lack fields: keys absent, values empty, values null.
RecNoFields == EmptyDict
RecEmptyFields == WithFields(EmptyDict)
RecHighestNoStatus == WithFields(Dict([priority |-> Str(Highest)]))
RecNullPriorityNullName ==
    WithFields(Dict([priority |-> None, status |-> Dict([name |-> None])]))
RecEmptyTexts == WithFields(Dict([priority |-> Str(<< >>), status |-> StatusNamed(<< >>)]))
RecNullStatus == WithFields(Dict([priority |-> Str(Low), status |-> None]))
RecNullFields == WithFields(None)

IssueRecords ==
    { RecHighestInProgress, RecLowDone, RecHighestDone, RecJiraHighestInReview,
      RecLowerCase, RecNotHighestDoneDot, RecNoFields, RecEmptyFields,
      RecHighestNoStatus, RecNullPriorityNullName, RecEmptyTexts, RecNullStatus,
      RecNullFields }

IssueLists == UNION { [1..n -> IssueRecords] : n \in 0..MaxIssues }

Scenario == << RecHighestInProgress, RecLowDone, RecHighestDone >>

Http(status, json) == [kind |-> "http", status |-> status, json |-> json]
NoResponse == [kind |-> "none", status |-> 0, json |-> None]

\* What requests.get and response.json() can give: a transport error, a
\* timeout, a status other than 200, and a 200 whose body is no JSON, no
\* object, an object without issues, with null issues, or with a list.
Responses ==
    { [kind |-> "timeout", status |-> 0, json |-> None],
      [kind |-> "connection-error", status |-> 0, json |-> None],
      Http(401, Dict([issues |-> List(Scenario)])),
      Http(500, Raise("JSONDecodeError")),
      Http(200, Raise("JSONDecodeError")),
      Http(200, List(<< >>)),
      Http(200, EmptyDict),
      Http(200, Dict([issues |-> None])),
      Http(200, Dict([issues |-> List(<< >>)])),
      Http(200, Dict([issues |-> List(Scenario)])),
      Http(200, Dict([issues |-> List(<< RecLowDone, RecNullStatus >>)])) }

Unset == [t |-> "unset", v |-> << >>]

(***************************************************************************)
(* The state after PMOReportGenerator() in a fresh reports directory.      *)
(***************************************************************************)
Init ==
    /\ now \in Instants
    /\ timestamp = FormatTimestamp(now)
    /\ pc = "idle"
    /\ report_time = << >>
    /\ issues = Unset
    /\ html_report = Unset
    /\ filename = << >>
    /\ subject = << >>
    /\ idx = 0
    /\ files = << >>
    /\ attempts = << >>
    /\ sent = << >>
    /\ response = NoResponse
    /\ steps = << >>
    /\ call_start = now
    /\ writes = << >>
    /\ runs = 0

Callable == pc \in { "idle", "done", "raised" }

\* The clock moves forward.  It is read by __init__, for the filename and
\* for the subject; time that passes during the fetch, the rendering or the
\* loop is seen at the next of these reads.
Advance ==
    /\ pc \notin { "render", "send" }
    /\ \E t \in Instants : Before(now, t) /\ now' = t
    /\ UNCHANGED << timestamp, pc, report_time, issues, html_report, filename,
                    subject, idx, files, attempts, sent, response, steps,
                    call_start, writes, runs >>

\* __init__: a new generator (a new process) once a call has ended.
Construct ==
    /\ pc \in { "done", "raised" }
    /\ runs < MaxRuns
    /\ timestamp' = FormatTimestamp(now)
    /\ pc' = "idle"
    /\ report_time' = << >>
    /\ issues' = Unset
    /\ html_report' = Unset
    /\ filename' = << >>
    /\ subject' = << >>
    /\ idx' = 0
    /\ attempts' = << >>
    /\ response' = NoResponse
    /\ steps' = << >>
    /\ call_start' = now
    /\ UNCHANGED << now, files, sent, writes, runs >>

\* generate_report(report_time) is entered.
Start ==
    /\ Callable
    /\ runs < MaxRuns
    /\ \E label \in Labels : report_time' = label
    /\ pc' = "fetch"
    /\ issues' = Unset
    /\ html_report' = Unset
    /\ filename' = << >>
    /\ subject' = << >>
    /\ idx' = 0
    /\ attempts' = << >>
    /\ response' = NoResponse
    /\ steps' = << >>
    /\ call_start' = now
    /\ runs' = runs + 1
    /\ UNCHANGED << now, timestamp, files, sent, writes >>

\* issues = self.fetch_jira_issues(), then len(issues) for the log line:
\* len raises TypeError on None.
Fetch ==
    /\ pc = "fetch"
    /\ \E resp \in Responses :
          /\ response' = resp
          /\ issues' = fetch_jira_issues(resp)
    /\ steps' = steps \o << "fetch", "count" >>
    /\ pc' = IF issues'.t = "list" THEN "render" ELSE "raised"
    /\ UNCHANGED << now, timestamp, report_time, html_report, filename, subject,
                    idx, files, attempts, sent, call_start, writes, runs >>

\* html_report = self.generate_dark_report(issues)
Render ==
    /\ pc = "render"
    /\ LET r == generate_dark_report(timestamp, issues.v)
       IN  /\ html_report' = IF r.t = "raise" THEN html_report ELSE r
           /\ pc' = IF r.t = "raise" THEN "raised" ELSE "write"
    /\ steps' = Append(steps, "render")
    /\ UNCHANGED << now, timestamp, report_time, issues, filename, subject, idx,
                    files, attempts, sent, response, call_start, writes, runs >>

\* Mutant: an error of the write is swallowed.
AfterWriteSwallowed(outcome) == "subject"
\* The `with open(...)` block has no handler: an error leaves generate_report.
AfterWrite(outcome) == IF outcome = "ok" THEN "subject" ELSE "raised"

\* The filename, then open(filename, 'w') and f.write(html_report).  open
\* can fail (the file is left as it was) and the write can fail (the file
\* was truncated by open); either error leaves generate_report.
Write ==
    /\ pc = "write"
    /\ filename' = ReportPath(report_time, now)
    /\ \E outcome \in { "ok", "open-fails", "write-fails" } :
          /\ files' = CASE outcome = "ok" -> PutFile(files, filename', html_report)
                        [] outcome = "open-fails" -> files
                        [] outcome = "write-fails" -> PutFile(files, filename', Partial)
          /\ pc' = AfterWrite(outcome)
          /\ writes' = Append(writes, [label |-> report_time, date |-> DateOf(now),
                                       path |-> filename', doc |-> html_report,
                                       outcome |-> outcome])
    /\ steps' = Append(steps, "write")
    /\ UNCHANGED << now, timestamp, report_time, issues, html_report, subject, idx,
                    attempts, sent, response, call_start, runs >>

\* subject = f"... {report_time} - {now:%d/%m/%Y}", and the loop is entered.
Subject ==
    /\ pc = "subject"
    /\ subject' = ReportSubject(report_time, now)
    /\ idx' = 1
    /\ pc' = "send"
    /\ steps' = Append(steps, "subject")
    /\ UNCHANGED << now, timestamp, report_time, issues, html_report, filename,
                    files, attempts, sent, response, call_start, writes, runs >>

\* One iteration of `for email in EMAILS`.
Send ==
    /\ pc = "send"
    /\ idx <= Len(EMAILS)
    /\ LET r == send_email_outlook(EMAILS[idx], subject, html_report, attempts, sent)
       IN  /\ attempts' = r.attempts
           /\ sent' = r.sent
    /\ idx' = idx + 1
    /\ steps' = Append(steps, "send")
    /\ UNCHANGED << now, timestamp, pc, report_time, issues, html_report, filename,
                    subject, files, response, call_start, writes, runs >>

\* The loop is over: the final log line, and generate_report returns.
Finish ==
    /\ pc = "send"
    /\ idx > Len(EMAILS)
    /\ pc' = "done"
    /\ steps' = Append(steps, "finished")
    /\ UNCHANGED << now, timestamp, report_time, issues, html_report, filename,
                    subject, idx, files, attempts, sent, response, call_start,
                    writes, runs >>

Next ==
    \/ Advance
    \/ Construct
    \/ Start
    \/ Fetch
    \/ Render
    \/ Write
    \/ Subject
    \/ Send
    \/ Finish

Spec == Init /\ [][Next]_vars

(***************************************************************************)
(* generate_dark_report on its own: any list of at most MaxIssues records  *)
(* is handed to it.                                                        *)
(***************************************************************************)
AggInit ==
    /\ now \in Instants
    /\ timestamp = FormatTimestamp(now)
    /\ pc = "render"
    /\ report_time = << "0", "9", "h" >>
    /\ issues \in { List(l) : l \in IssueLists }
    /\ html_report = Unset
    /\ filename = << >>
    /\ subject = << >>
    /\ idx = 0
    /\ files = << >>
    /\ attempts = << >>
    /\ sent = << >>
    /\ response = NoResponse
    /\ steps = << >>
    /\ call_start = now
    /\ writes = << >>
    /\ runs = 1

AggNext == Render

AggSpec == AggInit /\ [][AggNext]_vars


(***************************************************************************)
(* Vocabulary of the properties.  These read the inputs directly and do    *)
(* not use the operators that model the code.                              *)
(***************************************************************************)
Range(f) == { f[k] : k \in DOMAIN f }
IsPrefix(a, b) == Len(a) <= Len(b) /\ SubSeq(b, 1, Len(a)) = a

\* The number a decimal text denotes.
DigitValue(c) == CHOOSE k \in 0..9 : DigitChars[k + 1] = c
RECURSIVE Decimal(_)
Decimal(text) ==
    IF text = << >> THEN 0
    ELSE 10 * Decimal(SubSeq(text, 1, Len(text) - 1)) + DigitValue(text[Len(text)])

Zero == << "0" >>

\* The entry of a record at a path of keys, when every key on the way is
\* present and holds an object.
HasFields(i) == "fields" \in DOMAIN i.v /\ i.v.fields.t = "dict"
HasEntry(i, key) == HasFields(i) /\ key \in DOMAIN i.v.fields.v

\* The priority label of a record: the priority text, or the name of a
\* priority object; no label when the priority is absent or null.
PriorityLabel(i) ==
    IF ~HasEntry(i, "priority") THEN << >>
    ELSE LET p == i.v.fields.v.priority
         IN  IF p.t = "str" THEN p.v
             ELSE IF p.t = "dict" /\ "name" \in DOMAIN p.v /\ p.v.name.t = "str"
                  THEN p.v.name.v
             ELSE << >>

\* The status name of a record; no name when status or name is absent or
\* null.
StatusLabel(i) ==
    IF ~HasEntry(i, "status") THEN << >>
    ELSE LET st == i.v.fields.v.status
         IN  IF st.t = "dict" /\ "name" \in DOMAIN st.v /\ st.v.name.t = "str"
             THEN st.v.name.v
             ELSE << >>

\* `word` occurs in `text`, character by character.
Occurs(word, text) ==
    \E k \in 0..(Len(text) - Len(word)) :
        \A j \in 1..Len(word) : text[k + j] = word[j]

\* The records of a list, by position, that fall in each category.
HighestLabelled(l) == { k \in DOMAIN l : Occurs(Highest, PriorityLabel(l[k])) }
NotHighestLabelled(l) == { k \in DOMAIN l : ~Occurs(Highest, PriorityLabel(l[k])) }
AtRisk(l) ==
    { k \in DOMAIN l : StatusLabel(l[k]) = InReview \/ StatusLabel(l[k]) = InProgress }
Completed(l) == { k \in DOMAIN l : StatusLabel(l[k]) = Done }

\* generate_dark_report has returned a document for `issues`.
Rendered == pc = "write" /\ html_report.t = "html"

\* A record that lacks fields, priority, status or status name: the key is
\* absent, or its value is null, an empty object or an empty text.
Blank(x) ==
    \/ x.t = "None"
    \/ x.t = "dict" /\ DOMAIN x.v = { }
    \/ x.t = "str" /\ Len(x.v) = 0
Lacking(i) ==
    \/ "fields" \notin DOMAIN i.v
    \/ Blank(i.v.fields)
    \/ i.v.fields.t = "dict" /\
         ( \/ "priority" \notin DOMAIN i.v.fields.v
           \/ Blank(i.v.fields.v.priority)
           \/ "status" \notin DOMAIN i.v.fields.v
           \/ Blank(i.v.fields.v.status)
           \/ i.v.fields.v.status.t = "dict" /\
                ( \/ "name" \notin DOMAIN i.v.fields.v.status.v
                  \/ Blank(i.v.fields.v.status.v.name) ) )

\* This call has executed the step.
Did(step) == step \in Range(steps)
\* The fetch of this call failed: the request raised or timed out.
FetchRaised == response.kind \in { "timeout", "connection-error" }
\* The fetch of this call failed in any way the code recovers from: no
\* answer, a status other than 200, or a body that is no JSON.
FetchFailed ==
    \/ FetchRaised
    \/ response.kind = "http" /\ (response.status # 200 \/ response.json.t = "raise")
\* The file write of this call.
ThisWrite == writes[Len(writes)]
WriteSucceeded == Did("write") /\ ThisWrite.outcome = "ok"
WriteFailed == Did("write") /\ ThisWrite.outcome # "ok"

(***************************************************************************)
(* C1.  fetch_jira_issues never propagates an error: when the request      *)
(* raises or times out, the status is not 200, or the body cannot be       *)
(* parsed, it returns the empty list, and the call goes on to render.      *)
(***************************************************************************)
C1_FetchDegradesToEmptyList ==
    (Did("fetch") /\ FetchFailed) =>
        /\ issues = List(<< >>)
        /\ ~(pc = "raised" /\ steps[Len(steps)] = "count")

C1_Witness ==
    /\ pc = "render"
    /\ response.kind = "http" /\ response.status = 200 /\ response.json.t = "raise"
    /\ issues = List(<< >>)

(***************************************************************************)
(* C2.  When the fetch raises or times out, the aggregator receives the    *)
(* empty list, no step before the file write stops the call, the file that *)
(* is written shows 0 in all four KPI tiles, and a call that ends has made *)
(* a delivery attempt for every recipient, after the write.                *)
(***************************************************************************)
AllZero(doc) ==
    /\ doc.t = "html"
    /\ doc.v.kpi_total = Zero
    /\ doc.v.kpi_critical = Zero
    /\ doc.v.kpi_in_risk = Zero
    /\ doc.v.kpi_completed = Zero

C2_FailedFetchRunCompletes ==
    (Did("fetch") /\ FetchRaised) =>
        /\ issues = List(<< >>)
        /\ (pc = "raised" => steps[Len(steps)] = "write")
        /\ (Did("render") => AllZero(html_report))
        /\ (WriteSucceeded =>
                /\ filename \in DOMAIN files
                /\ AllZero(files[filename])
                /\ pc \in { "subject", "send", "done" })
        /\ (attempts # << >> => WriteSucceeded)
        /\ (pc = "done" => { attempts[k].to : k \in DOMAIN attempts } = Range(EMAILS))

C2_Witness ==
    /\ pc = "done"
    /\ response.kind = "timeout"
    /\ AllZero(files[filename])
    /\ Len(attempts) = Len(EMAILS)

(***************************************************************************)
(* C3.  For every list of issue records the document shows as total the    *)
(* length of the list and as critical the number of records whose priority *)
(* label contains "Highest" (case-sensitive substring), so critical plus   *)
(* the number of records whose label does not contain it is total.         *)
(***************************************************************************)
C3_TotalAndCritical ==
    Rendered =>
        /\ Decimal(html_report.v.kpi_total) = Len(issues.v)
        /\ Decimal(html_report.v.kpi_critical)
              = Cardinality(HighestLabelled(issues.v))
        /\ Decimal(html_report.v.kpi_critical)
              + Cardinality(NotHighestLabelled(issues.v))
              = Decimal(html_report.v.kpi_total)
        /\ html_report.v.open_tasks = html_report.v.kpi_total
        /\ html_report.v.hotzone = html_report.v.kpi_critical

C3_Witness ==
    /\ Rendered
    /\ issues.v = << RecNotHighestDoneDot, RecLowerCase, RecJiraHighestInReview >>
    /\ html_report.v.kpi_total = << "3" >>
    /\ html_report.v.kpi_critical = << "2" >>

(***************************************************************************)
(* C4.  For every list of issue records inRisk is the number of records    *)
(* whose status name is exactly "In Review" or "In Progress" and completed *)
(* the number whose status name is exactly "Done"; any other status name   *)
(* adds to neither and the priority plays no part.  The three records      *)
(* Highest/In Progress, Low/Done, Highest/Done give 3, 2, 1, 2.            *)
(***************************************************************************)
C4_InRiskAndCompleted ==
    Rendered =>
        /\ Decimal(html_report.v.kpi_in_risk) = Cardinality(AtRisk(issues.v))
        /\ Decimal(html_report.v.kpi_completed)
              = Cardinality(Completed(issues.v))
        /\ (issues.v = Scenario =>
                /\ html_report.v.kpi_total = << "3" >>
                /\ html_report.v.kpi_critical = << "2" >>
                /\ html_report.v.kpi_in_risk = << "1" >>
                /\ html_report.v.kpi_completed = << "2" >>)

C4_Witness ==
    /\ Rendered
    /\ issues.v = Scenario
    /\ html_report.v.kpi_in_risk = << "1" >>
    /\ html_report.v.kpi_completed = << "2" >>

(***************************************************************************)
(* C5.  Aggregation never raises on a record that lacks expected fields:   *)
(* when some record of the list lacks fields, priority, status or status   *)
(* name, generate_dark_report still returns a document, in whose total the *)
(* record is counted.                                                      *)
(***************************************************************************)
C5_NeverRaisesOnLackingRecord ==
    (Did("render") /\ \E k \in DOMAIN issues.v : Lacking(issues.v[k])) =>
        /\ pc # "raised"
        /\ html_report.t = "html"
        /\ Decimal(html_report.v.kpi_total) = Len(issues.v)

(***************************************************************************)
(* C6.  The steps of one call happen in the order fetch, render, file      *)
(* write, notify.  A failure of the file write leaves generate_report: no  *)
(* delivery attempt is made in that call and it is not reported finished.  *)
(***************************************************************************)
StepOrder ==
    << "fetch", "count", "render", "write", "subject" >>
        \o [k \in 1..Len(EMAILS) |-> "send"] \o << "finished" >>

C6_StepOrderAndFatalWrite ==
    /\ IsPrefix(steps, StepOrder)
    /\ (WriteFailed =>
            /\ pc = "raised"
            /\ steps[Len(steps)] = "write"
            /\ attempts = << >>
            /\ ~Did("finished"))

C6_Witness ==
    /\ WriteFailed
    /\ pc = "raised"
    /\ html_report.t = "html"
    /\ attempts = << >>

(***************************************************************************)
(* C7.  In a call whose file write succeeds exactly one delivery attempt   *)
(* is made for each of the two recipients, in list order, each with the    *)
(* same subject and with the document that was written to the file; no     *)
(* attempt sends mail, and none raises, so the call ends after both.       *)
(***************************************************************************)
C7_OneAttemptPerRecipient ==
    /\ sent = << >>
    /\ Len(EMAILS) = 2
    /\ IsPrefix([k \in DOMAIN attempts |-> attempts[k].to], EMAILS)
    /\ \A k \in DOMAIN attempts :
          /\ attempts[k].subject = subject
          /\ attempts[k].body = ThisWrite.doc
          /\ attempts[k].body = files[filename]
    /\ (WriteSucceeded => pc \in { "subject", "send", "done" })
    /\ (pc = "done" => WriteSucceeded /\ Len(attempts) = Len(EMAILS))

C7_Witness ==
    /\ pc = "done"
    /\ Len(attempts) = 2
    /\ attempts[1].to # attempts[2].to
    /\ attempts[2].body.v.kpi_total = << "3" >>

(***************************************************************************)
(* C8.  The path of the report file is a function of the label and the     *)
(* date only: label "15h" on 2024-03-05 gives                              *)
(* reports/pmo_report_15h_20240305.html.  Two writes with the same label   *)
(* and date have the same path, and the file holds the document of the     *)
(* later one; two writes that differ in label or date have different       *)
(* paths, so neither touches the other's file.                             *)
(***************************************************************************)
ExamplePath == << "r", "e", "p", "o", "r", "t", "s", "/", "p", "m", "o", "_", "r", "e", "p", "o", "r", "t", "_", "1", "5", "h", "_", "2", "0", "2", "4", "0", "3", "0", "5", ".", "h", "t", "m", "l" >>

\* The write that decides the content of the file at writes[i].path: no
\* later write opened that file.
Latest(i) ==
    \A j \in DOMAIN writes :
        (j > i /\ writes[j].path = writes[i].path) => writes[j].outcome = "open-fails"

C9_TimestampWithinCall ==
    html_report.t = "html" =>
        /\ \E t \in Instants :
              /\ FormatTimestamp(t) = html_report.v.timestamp
              /\ ~Before(t, call_start)
              /\ ~Before(now, t)
        /\ (Did("write") =>
                SubSeq(html_report.v.timestamp, 1, 10)
                    = Pad(ThisWrite.date.Y, 4) \o << "-" >> \o Pad(ThisWrite.date.m, 2)
                        \o << "-" >> \o Pad(ThisWrite.date.d, 2))

(***************************************************************************)
(* C10.  fetch_jira_issues returns a list in every outcome, also for a 200 *)
(* answer whose body has no usable issues array, so generate_report does   *)
(* not fail between the fetch and the file write.                          *)
(***************************************************************************)
C10_FetchAlwaysReturnsList ==
    Did("fetch") =>
        /\ issues.t = "list"
        /\ ~(pc = "raised" /\ steps[Len(steps)] = "count")

====
